---- MODULE Spec2Model ----
(***************************************************************************)
(* jaxfg: the Levenberg-Marquardt iteration                                *)
(* (jaxfg/solvers/_levenberg_marquardt_solver.py) and the factor stack     *)
(* (jaxfg/core/_factor_stack.py).                                          *)
(*                                                                         *)
(* Spec      : the solver loop  initialize -> _step* -> done  on small     *)
(*             one-variable least-squares graphs.                          *)
(* StackSpec : FactorStack.make and FactorStack.compute_jacobian_coords    *)
(*             applied to bounded factor sequences.                        *)
(*                                                                         *)
(* Scalars that are floats in the program (lambd, the tolerances, the      *)
(* step quality) are exact rationals <<numerator, denominator>> here.      *)
(***************************************************************************)
EXTENDS Integers, Sequences, FiniteSets, TLC

VARIABLES
    graph,        \* LM: which least-squares graph is being solved
    solver,       \* LM: the LevenbergMarquardtSolver's fields
    state,        \* LM: the current _LevenbergMarquardtState
    state_prev,   \* LM: the state the last _step was given
    last,         \* LM: the locals of the last _step
    hist,         \* LM: steps taken, initial and last accepted assignments
    factors,      \* stack: the factor sequence handed to the static methods
    storage_metadata, \* stack: index_from_variable of the storage
    local_storage_metadata, \* stack: index_from_variable of the local storage
    row_offset,   \* stack: first residual row of the stack
    stack,        \* stack: result of FactorStack.make
    jacobian_coords \* stack: result of FactorStack.compute_jacobian_coords

vars == <<graph, solver, state, state_prev, last, hist,
          factors, storage_metadata, local_storage_metadata, row_offset, stack,
          jacobian_coords>>

lmVars == <<graph, solver, state, state_prev, last, hist>>
stackVars == <<factors, storage_metadata, local_storage_metadata, row_offset,
               stack, jacobian_coords>>

----------------------------------------------------------------------------
(* Bounds of the model. *)

\* assignments range over -MaxX .. MaxX
MaxX == 3
\* the linear solver returns a step in -MaxStep .. MaxStep
MaxStep == 2
\* max_iterations of the solver under test
MaxIterations == 4
\* no run is followed for more than MaxSteps steps
MaxSteps == 6

----------------------------------------------------------------------------
(* Exact rational arithmetic for the float scalars. *)

Abs(n) == IF n < 0 THEN -n ELSE n

RECURSIVE Gcd(_, _)
Gcd(a, b) == IF b = 0 THEN a ELSE Gcd(b, a % b)

\* the rational n/d in lowest terms, d > 0
Rat(n, d) ==
    LET s == IF d < 0 THEN -1 ELSE 1
        g == Gcd(Abs(n), Abs(d))
    IN  <<(s * n) \div g, (s * d) \div g>>

RatMul(a, b) == Rat(a[1] * b[1], a[2] * b[2])
RatDiv(a, b) == Rat(a[1] * b[2], a[2] * b[1])
RatLE(a, b) == a[1] * b[2] <= b[1] * a[2]
RatLT(a, b) == a[1] * b[2] < b[1] * a[2]
\* jnp.minimum / jnp.maximum
RatMin(a, b) == IF RatLE(a, b) THEN a ELSE b
RatMax(a, b) == IF RatLE(a, b) THEN b ELSE a

RECURSIVE SumSeq(_)
SumSeq(s) == IF s = <<>> THEN 0 ELSE Head(s) + SumSeq(Tail(s))

\* sum of squares of a vector
SqNorm(v) == SumSeq([i \in 1..Len(v) |-> v[i] * v[i]])

\* dot product of two vectors of the same length
Dot(u, v) == SumSeq([i \in 1..Len(u) |-> u[i] * v[i]])

----------------------------------------------------------------------------
(* The graph-level driver, on graphs with one scalar Euclidean variable.   *)

Graphs == {"quadratic", "two_linear"}

\* the whitened residual vector of the graph at assignments x
ResidualVector(g, x) ==
    IF g = "quadratic" THEN <<x * x - 4>> ELSE <<x - 1, x + 1>>

\* graph.compute_cost: (sum of squared residuals, residual vector)
compute_cost(g, x) ==
    [cost |-> SqNorm(ResidualVector(g, x)), residual_vector |-> ResidualVector(g, x)]

\* graph.compute_whitened_residual_jacobian: the single column of A
compute_whitened_residual_jacobian(g, x) ==
    IF g = "quadratic" THEN <<2 * x>> ELSE <<1, 1>>

\* VariableAssignments.manifold_retract for a Euclidean scalar
manifold_retract(x, delta) == x + delta

----------------------------------------------------------------------------
(* Solver configuration. *)

LambdaInitials == {Rat(1, 8), Rat(1, 1), Rat(16, 1)}

Solvers ==
    [lambda_initial : LambdaInitials,
     lambda_factor : {Rat(2, 1)},
     lambda_min : {Rat(1, 1)},
     lambda_max : {Rat(2, 1), Rat(4, 1)},
     step_quality_min : {Rat(1, 1000)},
     cost_tolerance : {Rat(11, 20)},
     gradient_tolerance : {Rat(1, 1)},
     parameter_tolerance : {Rat(1, 1)},
     max_iterations : {MaxIterations}]

----------------------------------------------------------------------------
(* _LevenbergMarquardtState and _initialize_state. *)

_initialize_state(g, s, initial_assignments) ==
    [iterations |-> 0,
     assignments |-> initial_assignments,
     cost |-> compute_cost(g, initial_assignments).cost,
     residual_vector |-> compute_cost(g, initial_assignments).residual_vector,
     done |-> FALSE,
     lambd |-> s.lambda_initial]

NoStep ==
    [step_vector |-> 0, ATb |-> 0, assignments_proposed |-> 0,
     proposed_cost |-> 0, proposed_residual |-> <<>>,
     accept_flag |-> FALSE, converged |-> FALSE, exceeded |-> FALSE]

----------------------------------------------------------------------------
(* One LM step. *)

\* A.T @ -state_prev.residual_vector, A linearized at state_prev.assignments
NegativeGradient(g, sp) ==
    Dot(compute_whitened_residual_jacobian(g, sp.assignments),
        [i \in 1..Len(sp.residual_vector) |-> -sp.residual_vector[i]])

\* linear_solver.solve_subproblem: a (possibly approximate) solution of
\* (A^T A + lambd) delta = ATb.  The exact solution and every iterate of an
\* iterative method started at zero leave the damped quadratic objective
\*   |A delta|^2 - 2 delta.ATb + lambd |delta|^2
\* at or below its value at delta = 0; a step too small to move the
\* assignments is delta = 0.
solve_subproblem(A, ATb, lambd) ==
    {delta \in -MaxStep..MaxStep :
        \/ delta = 0
        \/ lambd[2] * (delta * delta * SqNorm(A) - 2 * delta * ATb)
             + lambd[1] * delta * delta <= 0}

\* compute_step_quality: (actual cost reduction) / (reduction predicted by
\* the linear model A delta + residual), as numerator and denominator
compute_step_quality(A, proposed_cost, sp, step_vector) ==
    <<sp.cost - proposed_cost,
      SqNorm(sp.residual_vector)
        - SqNorm([i \in 1..Len(A) |-> A[i] * step_vector + sp.residual_vector[i]])>>

\* float comparison  q[1] / q[2] >= m : 0/0 is NaN and compares false,
\* x/0 is an infinity with the sign of x
StepQualityGE(q, m) ==
    IF q[2] > 0 THEN q[1] * m[2] >= m[1] * q[2]
    ELSE IF q[2] < 0 THEN q[1] * m[2] <= m[1] * q[2]
    ELSE q[1] > 0

\* accept_flag = compute_step_quality(...) >= self.step_quality_min
AcceptFlag(s, A, proposed_cost, sp, step_vector) ==
    StepQualityGE(compute_step_quality(A, proposed_cost, sp, step_vector),
                  s.step_quality_min)

\* the damping update with the bounds enforced on acceptance too
LambdaUpdateClampAlways(s, accept_flag, lambd_prev) ==
    RatMax(s.lambda_min,
           RatMin(IF accept_flag THEN RatDiv(lambd_prev, s.lambda_factor)
                  ELSE RatMul(lambd_prev, s.lambda_factor),
                  s.lambda_max))

\* the damping update with the upper bound left out
LambdaUpdateNoUpperBound(s, accept_flag, lambd_prev) ==
    IF accept_flag
    THEN RatDiv(lambd_prev, s.lambda_factor)
    ELSE RatMax(s.lambda_min, RatMul(lambd_prev, s.lambda_factor))

\* the damping update
LambdaUpdate(s, accept_flag, lambd_prev) ==
    IF accept_flag
    THEN RatDiv(lambd_prev, s.lambda_factor)
    ELSE RatMax(s.lambda_min,
                RatMin(RatMul(lambd_prev, s.lambda_factor), s.lambda_max))

\* output assignments: jnp.where(accept_flag, proposed, previous)
StepAssignments(accept_flag, assignments_proposed, assignments_prev) ==
    IF accept_flag THEN assignments_proposed ELSE assignments_prev

\* output cost taken from the candidate whatever accept_flag is
StepCostUnguarded(accept_flag, proposed_cost, cost_prev) == proposed_cost

\* output cost: jnp.where(accept_flag, proposed_cost, state_prev.cost)
StepCost(accept_flag, proposed_cost, cost_prev) ==
    IF accept_flag THEN proposed_cost ELSE cost_prev

\* output residual vector: residual_vector=residual_vector, the one computed
\* at assignments_proposed, whatever accept_flag is
StepResidualVector(accept_flag, proposed_residual, residual_prev) ==
    proposed_residual

\* iterations carried over without the increment
StepIterationsKept(iterations_prev) == iterations_prev

\* iterations=state_prev.iterations + 1
StepIterations(iterations_prev) == iterations_prev + 1

\* check_exceeded_max_iterations: this step reaches the iteration budget
check_exceeded_max_iterations(s, sp) ==
    sp.iterations + 1 >= s.max_iterations

\* check_convergence: relative cost change, gradient magnitude or step
\* magnitude below its tolerance
check_convergence(s, sp, cost_updated, step_vector, ATb) ==
    \/ Abs(cost_updated - sp.cost) * s.cost_tolerance[2]
         < s.cost_tolerance[1] * sp.cost
    \/ Abs(ATb) * s.gradient_tolerance[2] < s.gradient_tolerance[1]
    \/ Abs(step_vector) * s.parameter_tolerance[2] < s.parameter_tolerance[1]

\* done without the accept_flag conjunct
StepDoneAnyStep(exceeded, accept_flag, converged) == exceeded \/ converged

\* done = logical_or(exceeded, logical_and(accept_flag, converged))
StepDone(exceeded, accept_flag, converged) ==
    exceeded \/ (accept_flag /\ converged)

\* the locals of _step for the step vector the linear solver returned
StepLocals(g, s, sp, step_vector) ==
    LET A == compute_whitened_residual_jacobian(g, sp.assignments)
        ATb == NegativeGradient(g, sp)
        assignments_proposed == manifold_retract(sp.assignments, step_vector)
        proposed == compute_cost(g, assignments_proposed)
    IN  [step_vector |-> step_vector,
         ATb |-> ATb,
         assignments_proposed |-> assignments_proposed,
         proposed_cost |-> proposed.cost,
         proposed_residual |-> proposed.residual_vector,
         accept_flag |-> AcceptFlag(s, A, proposed.cost, sp, step_vector),
         converged |-> check_convergence(s, sp, proposed.cost, step_vector, ATb),
         exceeded |-> check_exceeded_max_iterations(s, sp)]

\* the state _step returns
_step(sp, s, l) ==
    [iterations |-> StepIterations(sp.iterations),
     assignments |-> StepAssignments(l.accept_flag, l.assignments_proposed,
                                     sp.assignments),
     lambd |-> LambdaUpdate(s, l.accept_flag, sp.lambd),
     cost |-> StepCost(l.accept_flag, l.proposed_cost, sp.cost),
     residual_vector |-> StepResidualVector(l.accept_flag, l.proposed_residual,
                                            sp.residual_vector),
     done |-> StepDone(l.exceeded, l.accept_flag, l.converged)]

----------------------------------------------------------------------------
(* The solver loop. *)

StackIdle ==
    /\ factors = <<>>
    /\ storage_metadata = <<>>
    /\ local_storage_metadata = <<>>
    /\ row_offset = 0
    /\ stack = "none"
    /\ jacobian_coords = "none"

Init ==
    /\ graph \in Graphs
    /\ solver \in Solvers
    /\ \E initial_assignments \in -MaxX..MaxX :
          /\ state = _initialize_state(graph, solver, initial_assignments)
          /\ hist = [steps |-> 0, initial |-> initial_assignments,
                     last_accepted |-> initial_assignments]
    /\ state_prev = state
    /\ last = NoStep
    /\ StackIdle

\* while not state.done: state = self._step(graph, state)
Step ==
    /\ ~state.done
    /\ hist.steps < MaxSteps
    /\ \E step_vector \in solve_subproblem(
              compute_whitened_residual_jacobian(graph, state.assignments),
              NegativeGradient(graph, state), state.lambd) :
          /\ manifold_retract(state.assignments, step_vector) \in -MaxX..MaxX
          /\ LET l == StepLocals(graph, solver, state, step_vector)
             IN  /\ last' = l
                 /\ state' = _step(state, solver, l)
                 /\ hist' = [steps |-> hist.steps + 1,
                             initial |-> hist.initial,
                             last_accepted |->
                                 IF l.accept_flag THEN l.assignments_proposed
                                 ELSE hist.last_accepted]
    /\ state_prev' = state
    /\ UNCHANGED <<graph, solver>>
    /\ UNCHANGED stackVars

Next == Step

Spec == Init /\ [][Next]_vars

\* the loop is a plain while loop: a step that can be taken is taken
FairSpec == Init /\ [][Next]_vars /\ WF_vars(Step)

----------------------------------------------------------------------------
(* Variables, factors and storage metadata of the factor stack. *)

\* at most MaxFactors factors are stacked
MaxFactors == 2
\* row_offset ranges over 0 .. MaxRowOffset
MaxRowOffset == 1

VariableTypes == {"SE2Variable", "RealVectorVariable"}

\* the variable instances; the variable types have no subclasses
Variables == {"p0", "p1", "q0"}

VarType(variable) ==
    IF variable \in {"p0", "p1"} THEN "SE2Variable" ELSE "RealVectorVariable"

\* VariableBase.get_parameter_dim: the storage dimension
TypeParameterDim(variable_type) ==
    IF variable_type = "SE2Variable" THEN 4 ELSE 1

\* VariableBase.get_local_parameter_dim: the tangent dimension
TypeLocalParameterDim(variable_type) ==
    IF variable_type = "SE2Variable" THEN 3 ELSE 1

get_parameter_dim(variable) == TypeParameterDim(VarType(variable))
get_local_parameter_dim(variable) == TypeLocalParameterDim(VarType(variable))

FactorTypes == {"PriorFactor", "BetweenFactor"}

\* number of operand slots of a factor type
NumSlots(factor_type) == IF factor_type = "PriorFactor" THEN 1 ELSE 2

\* FactorBase.get_residual_dim
FactorResidualDim(factor_type) == IF factor_type = "PriorFactor" THEN 2 ELSE 3

\* the factors of one type, over every choice of operands
FactorsOf(factor_type) ==
    [type : {factor_type}, variables : [1..NumSlots(factor_type) -> Variables]]

\* StorageMetadata.index_from_variable for the variables laid out
\* contiguously in the order given, each taking dim[variable] entries
RECURSIVE IndexFromVariable(_, _, _)
IndexFromVariable(order, dim, start) ==
    IF order = <<>> THEN <<>>
    ELSE (Head(order) :> start)
            @@ IndexFromVariable(Tail(order), dim, start + dim[Head(order)])

\* the layouts tried: every variable present, in two orders, and two
\* layouts in which a variable has no entry
Layouts ==
    {<<"p0", "p1", "q0">>, <<"q0", "p1", "p0">>, <<"p0", "q0">>, <<"p1", "q0">>}

----------------------------------------------------------------------------
(* numpy helpers. *)

\* onp.arange(start, stop)
Arange(start, stop) == [j \in 1..(stop - start) |-> start + j - 1]

\* row-major flattening of the leading axis: the concatenation of the rows
RECURSIVE Flatten(_)
Flatten(rows) == IF rows = <<>> THEN <<>> ELSE Head(rows) \o Flatten(Tail(rows))

\* flat.reshape((n, m))
Reshape2(flat, n, m) == [i \in 1..n |-> [j \in 1..m |-> flat[(i - 1) * m + j]]]

----------------------------------------------------------------------------
(* FactorStack.make *)

\* isinstance(variable, variable_type)
IsInstance(variable, variable_type) == VarType(variable) = variable_type

\* the (factor, slot) pairs in the order the loops visit them
Visits(fs) ==
    Flatten([k \in 1..Len(fs) |->
                [i \in 1..Len(fs[k].variables) |-> <<k, i>>]])

\* the body of make's inner loop without its assertion
MakeVisitOutcomeUnchecked(fs, index_from_variable, visit) ==
    IF fs[visit[1]].variables[visit[2]] \notin DOMAIN index_from_variable
    THEN "KeyError"
    ELSE "ok"

\* what the body of make's inner loop raises at one visit
MakeVisitOutcome(fs, index_from_variable, visit) ==
    LET variable == fs[visit[1]].variables[visit[2]]
    IN  IF ~IsInstance(variable, VarType(fs[1].variables[visit[2]]))
        THEN "AssertionError"
        ELSE IF variable \notin DOMAIN index_from_variable
        THEN "KeyError"
        ELSE "ok"

\* the first exception raised along the outcomes of a sequence of visits,
\* "ok" if none
RECURSIVE FirstRaised(_)
FirstRaised(outcomes) ==
    IF outcomes = <<>> THEN "ok"
    ELSE IF Head(outcomes) # "ok" THEN Head(outcomes)
    ELSE FirstRaised(Tail(outcomes))

\* the index row cut to the local dimension of the variable
ValueIndexRowLocal(index_from_variable, variable) ==
    Arange(index_from_variable[variable],
           index_from_variable[variable] + get_local_parameter_dim(variable))

\* onp.arange(storage_pos, storage_pos + variable.get_parameter_dim())
ValueIndexRow(index_from_variable, variable) ==
    Arange(index_from_variable[variable],
           index_from_variable[variable] + get_parameter_dim(variable))

\* value_indices_stacked: per slot, one row per factor
ValueIndicesStacked(fs, index_from_variable) ==
    [i \in 1..NumSlots(fs[1].type) |->
        [k \in 1..Len(fs) |-> ValueIndexRow(index_from_variable, fs[k].variables[i])]]

\* len(factors)
MakeNumFactors(fs) == Len(fs)

make(fs, index_from_variable) ==
    LET raised == FirstRaised([n \in 1..Len(Visits(fs)) |->
                     MakeVisitOutcome(fs, index_from_variable, Visits(fs)[n])])
    IN  IF raised # "ok"
        THEN [kind |-> "raised", error |-> raised]
        ELSE [kind |-> "stack",
              num_factors |-> MakeNumFactors(fs),
              factor |-> [type |-> fs[1].type,
                          variables |-> [i \in 1..NumSlots(fs[1].type) |->
                                            VarType(fs[1].variables[i])]],
              value_indices |-> ValueIndicesStacked(fs, index_from_variable)]

\* FactorStack.get_residual_dim
get_residual_dim(st) == FactorResidualDim(st.factor.type) * st.num_factors

----------------------------------------------------------------------------
(* FactorStack.compute_jacobian_coords *)

\* onp.arange(storage_pos, storage_pos + variable.get_local_parameter_dim())
LocalValueIndexRow(index_from_variable, variable) ==
    Arange(index_from_variable[variable],
           index_from_variable[variable] + get_local_parameter_dim(variable))

\* onp.arange(num_factors * residual_dim).reshape((num_factors, residual_dim))
ResidualIndices(num_factors, residual_dim) ==
    Reshape2(Arange(0, num_factors * residual_dim), num_factors, residual_dim)

\* the coordinates laid out column by column within each factor
SlotCoordsColumnMajor(residual_indices, local_value_indices, offset, variable_dim) ==
    Flatten(Flatten(
        [k \in 1..Len(residual_indices) |->
            [c \in 1..variable_dim |->
                [r \in 1..Len(residual_indices[k]) |->
                    <<residual_indices[k][r] + offset, local_value_indices[k][c]>>]]]))

\* the (num_factors, residual_dim, variable_dim, 2) array of broadcast rows
\* and columns, reshaped to (num_factors * residual_dim * variable_dim, 2)
SlotCoords(residual_indices, local_value_indices, offset, variable_dim) ==
    Flatten(Flatten(
        [k \in 1..Len(residual_indices) |->
            [r \in 1..Len(residual_indices[k]) |->
                [c \in 1..variable_dim |->
                    <<residual_indices[k][r] + offset, local_value_indices[k][c]>>]]]))

\* what the lookup in the first loop raises at one visit
CoordsVisitOutcome(fs, index_from_variable, visit) ==
    IF fs[visit[1]].variables[visit[2]] \notin DOMAIN index_from_variable
    THEN "KeyError"
    ELSE "ok"

compute_jacobian_coords(fs, index_from_variable, offset) ==
    LET raised == FirstRaised([n \in 1..Len(Visits(fs)) |->
                     CoordsVisitOutcome(fs, index_from_variable, Visits(fs)[n])])
        variable_types == [i \in 1..Len(fs[1].variables) |-> VarType(fs[1].variables[i])]
        num_factors == Len(fs)
        residual_dim == FactorResidualDim(fs[1].type)
        local_value_indices_stacked ==
            [i \in 1..Len(variable_types) |->
                [k \in 1..num_factors |->
                    LocalValueIndexRow(index_from_variable, fs[k].variables[i])]]
        \* rows of different lengths do not stack into a (N, dim) array
        ragged == \E i \in 1..Len(variable_types), k \in 1..num_factors :
                     get_local_parameter_dim(fs[k].variables[i])
                        # TypeLocalParameterDim(variable_types[i])
    IN  IF raised # "ok" THEN [kind |-> "raised", error |-> raised]
        ELSE IF ragged THEN [kind |-> "raised", error |-> "ValueError"]
        ELSE [kind |-> "coords",
              coords |->
                [i \in 1..Len(variable_types) |->
                    LET pairs == SlotCoords(ResidualIndices(num_factors, residual_dim),
                                            local_value_indices_stacked[i], offset,
                                            TypeLocalParameterDim(variable_types[i]))
                    IN  [rows |-> [n \in 1..Len(pairs) |-> pairs[n][1]],
                         cols |-> [n \in 1..Len(pairs) |-> pairs[n][2]]]]]

----------------------------------------------------------------------------
(* Building one stack of a graph. *)

LMIdle ==
    /\ graph = "none"
    /\ solver = "none"
    /\ state = "none"
    /\ state_prev = "none"
    /\ last = "none"
    /\ hist = "none"

NotRun == [kind |-> "none"]

StackInit ==
    /\ \E factor_type \in FactorTypes, n \in 1..MaxFactors :
          factors \in [1..n -> FactorsOf(factor_type)]
    /\ \E layout \in Layouts :
          /\ storage_metadata =
                IndexFromVariable(layout, [v \in Variables |-> get_parameter_dim(v)], 0)
          /\ local_storage_metadata =
                IndexFromVariable(layout,
                                  [v \in Variables |-> get_local_parameter_dim(v)], 0)
    /\ row_offset \in 0..MaxRowOffset
    /\ stack = NotRun
    /\ jacobian_coords = NotRun
    /\ LMIdle

\* stack = FactorStack.make(factors, storage_metadata, use_onp)
Make ==
    /\ stack = NotRun
    /\ stack' = make(factors, storage_metadata)
    /\ UNCHANGED <<factors, storage_metadata, local_storage_metadata, row_offset,
                   jacobian_coords>>
    /\ UNCHANGED lmVars

\* FactorStack.compute_jacobian_coords(factors, local_storage_metadata, row_offset)
ComputeJacobianCoords ==
    /\ jacobian_coords = NotRun
    /\ jacobian_coords' = compute_jacobian_coords(factors, local_storage_metadata,
                                                  row_offset)
    /\ UNCHANGED <<factors, storage_metadata, local_storage_metadata, row_offset,
                   stack>>
    /\ UNCHANGED lmVars

StackNext == Make \/ ComputeJacobianCoords

StackSpec == StackInit /\ [][StackNext]_vars

----------------------------------------------------------------------------
(* Properties of the solver loop. *)

Stepped == hist.steps > 0

\* the stored residual vector is not the one of the stored assignments
StaleResidual(st) == st.residual_vector # ResidualVector(graph, st.assignments)

\* C1: over every step the stored cost does not increase: an accepted step
\* stores the candidate cost, which is not above the previous cost, and a
\* rejected step keeps the previous cost.
C1_CostNonIncreasing ==
    Stepped =>
        /\ state.cost <= state_prev.cost
        /\ last.accept_flag => state.cost = last.proposed_cost
        /\ ~last.accept_flag => state.cost = state_prev.cost

\* an accepted step that lowered the cost, taken after a rejected one
C1_Witness ==
    /\ hist.steps >= 2
    /\ last.accept_flag
    /\ state.cost < state_prev.cost
    /\ StaleResidual(state_prev)

\* C2: commit rule: an accepted step stores the candidate's assignments,
\* cost and residual vector; a rejected step leaves all three as they were;
\* so cost and residual vector are always those of the stored assignments.
C2_CommitRule ==
    /\ Stepped /\ last.accept_flag =>
          /\ state.assignments = last.assignments_proposed
          /\ state.cost = last.proposed_cost
          /\ state.residual_vector = last.proposed_residual
    /\ Stepped /\ ~last.accept_flag =>
          /\ state.assignments = state_prev.assignments
          /\ state.cost = state_prev.cost
          /\ state.residual_vector = state_prev.residual_vector
    /\ state.cost = compute_cost(graph, state.assignments).cost
    /\ state.residual_vector = compute_cost(graph, state.assignments).residual_vector

\* C3: damping update: after a rejected step lambd is lambd_prev * factor
\* clamped into [lambda_min, lambda_max], hence inside that interval; after
\* an accepted step it is exactly lambd_prev / factor, unclamped.
C3_DampingUpdate ==
    LET up == <<state_prev.lambd[1] * solver.lambda_factor[1],
                state_prev.lambd[2] * solver.lambda_factor[2]>>
    IN  /\ Stepped /\ ~last.accept_flag =>
              /\ RatLE(solver.lambda_min, state.lambd)
              /\ RatLE(state.lambd, solver.lambda_max)
              /\ RatLT(up, solver.lambda_min) => state.lambd = solver.lambda_min
              /\ RatLT(solver.lambda_max, up) => state.lambd = solver.lambda_max
              /\ RatLE(solver.lambda_min, up) /\ RatLE(up, solver.lambda_max) =>
                    RatLE(up, state.lambd) /\ RatLE(state.lambd, up)
        /\ Stepped /\ last.accept_flag =>
              /\ state.lambd[1] * solver.lambda_factor[1] * state_prev.lambd[2]
                    = state_prev.lambd[1] * state.lambd[2] * solver.lambda_factor[2]

\* an accepted step has taken lambd below lambda_min
C3_Witness ==
    /\ Stepped
    /\ last.accept_flag
    /\ RatLT(state.lambd, solver.lambda_min)
    /\ RatLE(solver.lambda_min, state_prev.lambd)

\* C4: done is set exactly when the iteration budget is reached or the
\* step was accepted and the termination check passed.
C4_DoneRule ==
    Stepped =>
        (state.done <=>
            \/ state_prev.iterations + 1 >= solver.max_iterations
            \/ (last.accept_flag /\ last.converged))

\* a rejected step whose termination check passed, and the loop goes on
C4_Witness ==
    /\ Stepped
    /\ ~last.accept_flag
    /\ last.converged
    /\ ~state.done

\* iterations counts the steps taken, one per step, never exceeds
\* max_iterations, done is set once max_iterations steps were taken, and
\* the state holds the last accepted assignments
WithinBudget ==
    /\ state.iterations = hist.steps
    /\ Stepped => state.iterations = state_prev.iterations + 1
    /\ state.iterations <= solver.max_iterations
    /\ state.iterations = solver.max_iterations => state.done
    /\ state.assignments = hist.last_accepted

\* C5: the loop always terminates: the iteration count grows by one per
\* step, done is reached after at most max_iterations steps whatever the
\* accept/reject and termination-check outcomes, and the final state holds
\* the last accepted assignments (the initial ones if none was accepted).
C5_Terminates == [](WithinBudget) /\ <>(state.done)

\* the budget ran out without convergence, after an accepted step
C5_Witness ==
    /\ state.done
    /\ state.iterations = solver.max_iterations
    /\ ~(last.accept_flag /\ last.converged)
    /\ ~last.accept_flag
    /\ state.assignments # hist.initial

\* C6: a step from a point of zero gradient (ATb = 0, so the step is zero
\* and the candidate cost is the previous cost) is accepted, leaves the
\* assignments unchanged and sets done.
C6_FixedPoint ==
    (Stepped /\ last.ATb = 0 /\ last.step_vector = 0
        /\ last.proposed_cost = state_prev.cost) =>
            /\ last.accept_flag
            /\ state.assignments = state_prev.assignments
            /\ state.done

----------------------------------------------------------------------------
(* Properties of the factor stack. *)

\* the operand of factor k (from 1) at slot i (from 1)
Operand(k, i) == factors[k].variables[i]

SlotsOfStack == 1..NumSlots(factors[1].type)

\* every factor's operand types are those of the first factor
SameTypes ==
    \A k \in 1..Len(factors), i \in SlotsOfStack :
        VarType(Operand(k, i)) = VarType(Operand(1, i))

\* every operand has an entry in the metadata
AllHaveEntries(index_from_variable) ==
    \A k \in 1..Len(factors), i \in SlotsOfStack :
        Operand(k, i) \in DOMAIN index_from_variable

HasMismatch == ~SameTypes

FirstMismatch ==
    CHOOSE n \in 1..Len(Visits(factors)) :
        /\ VarType(Operand(Visits(factors)[n][1], Visits(factors)[n][2]))
              # VarType(Operand(1, Visits(factors)[n][2]))
        /\ \A m \in 1..(n - 1) :
              VarType(Operand(Visits(factors)[m][1], Visits(factors)[m][2]))
                 = VarType(Operand(1, Visits(factors)[m][2]))

\* an operand visited before the first operand of the wrong type has no
\* entry in the storage metadata
MissingBeforeMismatch ==
    \E m \in 1..(FirstMismatch - 1) :
        Operand(Visits(factors)[m][1], Visits(factors)[m][2])
            \notin DOMAIN storage_metadata

C9_MakeIndices ==
    (stack.kind # "none" /\ SameTypes /\ AllHaveEntries(storage_metadata)) =>
    /\ stack.kind = "stack"
    /\ stack.num_factors = Len(factors)
    /\ Len(stack.value_indices) = NumSlots(factors[1].type)
    /\ Len(stack.value_indices) = Len(stack.factor.variables)
    /\ \A s \in SlotsOfStack :
        /\ Len(stack.value_indices[s]) = Len(factors)
        /\ \A i \in 1..Len(factors) :
            LET row == stack.value_indices[s][i]
                dim == TypeParameterDim(VarType(Operand(1, s)))
            IN  /\ Len(row) = dim
                /\ \A j \in 1..dim : row[j] = storage_metadata[Operand(i, s)] + j - 1

\* a stack of two two-slot factors on different operands
C9_Witness ==
    /\ stack.kind = "stack"
    /\ stack.num_factors = 2
    /\ Len(stack.value_indices) = 2
    /\ stack.value_indices[1][1] # stack.value_indices[1][2]
    /\ Len(stack.value_indices[1][1]) > Len(stack.value_indices[2][1])

====
